---- MODULE Spec2Model ----
(***************************************************************************)
(* The product-catalog API of SSSVentures-Backend: the in-memory product   *)
(* list, the uploads directory and the five product routes, in the three   *)
(* revisions the repository holds:                                         *)
(*   rev 1  src/server.js lines 1-304                                      *)
(*   rev 2  src/server.js lines 306-722  ("COMPLETE FIXED VERSION")        *)
(*   rev 3  src/unnamed/part_000         (AdminPanel-compatible)           *)
(*                                                                         *)
(* Texts.  A JavaScript string is a sequence of chunks (TLA+ strings).     *)
(* The code inspects a text only through the prefixes "http" and           *)
(* "/uploads/", the blank " " (trim), the comma "," (split) and the        *)
(* characters of a number (parseFloat); each of these is a chunk of its    *)
(* own in every text of the model, so prefix tests, trim, split and        *)
(* parseFloat are computed chunk by chunk as the code computes them        *)
(* character by character.                                                 *)
(*                                                                         *)
(* Values.  A JavaScript value is a tagged record: Undef, Str(text),       *)
(* Arr(sequence of values), a number Num(m, e) = m / 10^e, or NaN.         *)
(*                                                                         *)
(* Scheduling.  Node runs each handler to completion; a request (the       *)
(* multer upload step followed by the route handler) is one action.        *)
(* fs.existsSync/fs.unlinkSync are taken to succeed on a file that is      *)
(* there (the uploads directory is the server's own).                      *)
(***************************************************************************)
EXTENDS Integers, Sequences, FiniteSets, TLC

VARIABLES rev, products, files, now, last, left

vars == <<rev, products, files, now, last, left>>

(* ---------------------------------------------------------------- bounds *)

\* Products the list may hold (a Create on a full list is not issued).
MaxProducts == 2
\* The clock runs over 0..MaxClock milliseconds.
MaxClock == 1
\* Requests served in one behaviour (one more under SpecDeep).
MaxRequests == 2

Revisions == {1, 2, 3}

(* ----------------------------------------------------------- JS values *)

Undef == [t |-> "undefined"]
Str(s) == [t |-> "string", v |-> s]
Arr(s) == [t |-> "array", v |-> s]
Num(m, e) == [t |-> "number", nan |-> FALSE, m |-> m, e |-> e]
NaN == [t |-> "number", nan |-> TRUE, m |-> 0, e |-> 0]
\* new Date().toISOString(): a string, fixed width, whose lexicographic
\* order is the order of the instants; kept by its instant.
toISOString(ms) == [t |-> "string", iso |-> ms]

IsStr(x) == x.t = "string"

\* !!x
Truthy(x) ==
  CASE x.t = "undefined" -> FALSE
    [] x.t = "string" -> x.v # <<>>
    [] x.t = "array" -> TRUE
    [] x.t = "number" -> ~x.nan /\ x.m # 0
    [] x.t = "boolean" -> x.v

\* a || b
Or(a, b) == IF Truthy(a) THEN a ELSE b

(* ---------------------------------------------------------------- texts *)

Blank == " "
Comma == ","

startsWith(s, prefix) ==
  /\ Len(s) >= Len(prefix)
  /\ SubSeq(s, 1, Len(prefix)) = prefix

RECURSIVE trimStart(_)
trimStart(s) ==
  IF s # <<>> /\ Head(s) = Blank THEN trimStart(Tail(s)) ELSE s

RECURSIVE trimEnd(_)
trimEnd(s) ==
  IF s # <<>> /\ s[Len(s)] = Blank THEN trimEnd(SubSeq(s, 1, Len(s) - 1)) ELSE s

\* String.prototype.trim
trim(s) == trimEnd(trimStart(s))

\* String.prototype.split(","): the pieces between the commas, empty ones kept.
RECURSIVE splitFrom(_, _)
splitFrom(s, piece) ==
  IF s = <<>> THEN <<piece>>
  ELSE IF Head(s) = Comma THEN <<piece>> \o splitFrom(Tail(s), <<>>)
  ELSE splitFrom(Tail(s), Append(piece, Head(s)))

split(s) == splitFrom(s, <<>>)

(* -------------------------------------------------------------- numbers *)

Digits == <<"0", "1", "2", "3", "4", "5", "6", "7", "8", "9">>
IsDigit(c) == \E i \in 1..Len(Digits) : Digits[i] = c
DigitVal(c) == (CHOOSE i \in 1..Len(Digits) : Digits[i] = c) - 1

RECURSIVE Pow10(_)
Pow10(e) == IF e = 0 THEN 1 ELSE 10 * Pow10(e - 1)

\* m / 10^e with no trailing zero in the fraction: one record per number.
RECURSIVE Normal(_, _)
Normal(m, e) ==
  IF e > 0 /\ m % 10 = 0 THEN Normal(m \div 10, e - 1) ELSE Num(m, e)

\* The longest prefix of s made of digits.
RECURSIVE digitsOf(_)
digitsOf(s) ==
  IF s # <<>> /\ IsDigit(Head(s)) THEN <<Head(s)>> \o digitsOf(Tail(s)) ELSE <<>>

RECURSIVE intOf(_, _)
intOf(ds, acc) ==
  IF ds = <<>> THEN acc ELSE intOf(Tail(ds), 10 * acc + DigitVal(Head(ds)))

\* parseFloat on a text: leading blanks skipped, an optional sign, digits,
\* an optional "." and digits; whatever follows is ignored; NaN when no digit
\* is found.  (Exponents and "Infinity" are not among the model's inputs.)
parseFloatText(text) ==
  LET s0 == trimStart(text)
      neg == s0 # <<>> /\ Head(s0) = "-"
      s1 == IF s0 # <<>> /\ Head(s0) \in {"-", "+"} THEN Tail(s0) ELSE s0
      d1 == digitsOf(s1)
      s2 == SubSeq(s1, Len(d1) + 1, Len(s1))
      d2 == IF s2 # <<>> /\ Head(s2) = "." THEN digitsOf(Tail(s2)) ELSE <<>>
      mag == intOf(d1, 0) * Pow10(Len(d2)) + intOf(d2, 0)
  IN  IF d1 = <<>> /\ d2 = <<>> THEN NaN
      ELSE Normal(IF neg THEN 0 - mag ELSE mag, Len(d2))

\* Array.prototype.join(","), the text of an array of strings.
RECURSIVE join(_)
join(a) ==
  IF a = <<>> THEN <<>>
  ELSE IF Len(a) = 1 THEN Head(a).v
  ELSE Head(a).v \o <<Comma>> \o join(Tail(a))

\* parseFloat(x): a number is itself, everything else goes through its text.
parseFloat(x) ==
  CASE x.t = "number" -> x
    [] x.t = "string" -> parseFloatText(x.v)
    [] x.t = "array" -> parseFloatText(join(x.v))
    [] OTHER -> NaN

(* ------------------------------------------------- images and identifiers *)

UploadsPrefix == <<"/uploads/">>
Http == <<"http">>
\* getFullImageUrl's answer for no image.
NoImageUrl == <<"http", "s://via.placeholder.com/300x300/4A5568/FFFFFF?text=No+Image">>
\* The image Create stores when no file comes with the request (rev 2, rev 3).
ProductImageUrl == <<"http", "s://via.placeholder.com/300x300/4A5568/FFFFFF?text=Product+Image">>
\* `http://localhost:${PORT}`, PORT at its default 5000.
LocalUrl == <<"http", "://localhost:5000">>
\* process.env.BACKEND_URL of the server the routes are modelled for: not set.
BackendUrl == Undef

\* The base of a resolved upload: rev 1 reads BACKEND_URL and falls back to
\* the local URL, rev 2 always takes the local URL.
baseUrl(r, env) == IF r = 1 THEN Or(env, Str(LocalUrl)).v ELSE LocalUrl

\* multer's filename callback: "product-" + Date.now() + "-" + random + extension.
uploadFilename(ms, rnd, ext) ==
  <<"product-", ToString(ms), "-", ToString(rnd), ext>>

\* `/uploads/${req.file.filename}`; also the file's path below __dirname.
uploadRef(filename) == UploadsPrefix \o filename

\* "prod-" + Date.now().toString() + random suffix.  Date.now() has a fixed
\* number of digits, so the two parts of the text are kept as two chunks.
generateId(ms, rnd) == Str(<<"prod-", ToString(ms), ToString(rnd)>>)

\* A resolver that puts the base URL before every reference that is not http.
getFullImageUrlPrefixAll(r, env, imagePath) ==
  IF ~Truthy(imagePath) THEN Str(NoImageUrl)
  ELSE IF startsWith(imagePath.v, Http) THEN imagePath
  ELSE Str(baseUrl(r, env) \o imagePath.v)

\* getFullImageUrl: the placeholder for a falsy path, an http path as it is,
\* the base URL before an "/uploads/" path, any other path as it is.
getFullImageUrl(r, env, imagePath) ==
  IF ~Truthy(imagePath) THEN Str(NoImageUrl)
  ELSE IF startsWith(imagePath.v, Http) THEN imagePath
  ELSE IF startsWith(imagePath.v, UploadsPrefix)
       THEN Str(baseUrl(r, env) \o imagePath.v)
  ELSE imagePath

\* What a route returns for a product: rev 1 and rev 2 resolve its image,
\* rev 3 returns the stored record.
Returned(r, p) ==
  IF r = 3 THEN p ELSE [p EXCEPT !.image = getFullImageUrl(r, BackendUrl, p.image)]

\* Whether a stored image names a file the routes remove: rev 1 and rev 2
\* test the "/uploads/" prefix, rev 3 tests that it does not start with "http".
IsLocalImage(r, image) ==
  /\ Truthy(image)
  /\ IF r = 3 THEN ~startsWith(image.v, Http)
               ELSE startsWith(image.v, UploadsPrefix)

\* A lookup that falls back on the last product when no id matches.
findIndexOrLast(ps, id) ==
  IF \E i \in 1..Len(ps) : ps[i].id = id
  THEN CHOOSE i \in 1..Len(ps) : ps[i].id = id /\ \A j \in 1..(i - 1) : ps[j].id # id
  ELSE Len(ps)

\* products.findIndex(p => p.id === id): the first match, 0 for -1.
findIndex(ps, id) ==
  IF \E i \in 1..Len(ps) : ps[i].id = id
  THEN CHOOSE i \in 1..Len(ps) :
         /\ ps[i].id = id
         /\ \A j \in 1..(i - 1) : ps[j].id # id
  ELSE 0

\* products.splice(index, 1)
splice(ps, index) ==
  SubSeq(ps, 1, index - 1) \o SubSeq(ps, index + 1, Len(ps))

(* ----------------------------------------------------- building a product *)

True == [t |-> "boolean", v |-> TRUE]
Empty == Str(<<>>)

\* x.trim() on a string.
Trimmed(x) == Str(trim(x.v))

\* tags.split(",").map(tag => tag.trim())
splitTags(tags) ==
  LET pieces == split(tags.v)
  IN  Arr([i \in 1..Len(pieces) |-> Str(trim(pieces[i]))])

\* A tag normalisation that empties the list when the request has no tags.
normaliseTagsReset(tags, absent) ==
  IF Truthy(tags) THEN (IF IsStr(tags) THEN splitTags(tags) ELSE tags) ELSE Arr(<<>>)

\* rev 1 and rev 2: a string is split, any other truthy value is stored as sent.
normaliseTags(tags, absent) ==
  IF Truthy(tags) THEN (IF IsStr(tags) THEN splitTags(tags) ELSE tags) ELSE absent

\* A destructuring default: `field = ''` applies to undefined only.
Default(x, d) == IF x = Undef THEN d ELSE x

\* A validation that refuses an absent name only.
createRefusedAbsentOnly(r, body) == body.name = Undef

\* The validation of Create: TRUE when the request is refused with 400.
createRefused(r, body) ==
  IF r = 3
  THEN ~Truthy(body.name) \/ ~Truthy(body.price) \/ ~Truthy(body.mainCategory)
  ELSE ~Truthy(body.name)

\* Whether building the new product throws (caught: 500, nothing stored):
\* .trim() and .split() exist on strings only.
createThrows(r, body) ==
  IF r = 3
  THEN \/ ~IsStr(body.name)
       \/ ~IsStr(Default(body.description, Empty))
       \/ ~IsStr(body.mainCategory)
       \/ Truthy(body.subCategory) /\ ~IsStr(body.subCategory)
       \/ Truthy(Default(body.nestedCategory, Empty))
            /\ ~IsStr(Default(body.nestedCategory, Empty))
       \/ \E x \in {body.composition, body.gsm, body.width, body.count,
                    body.construction, body.weave, body.finish, body.usage} :
            ~IsStr(Default(x, Empty))
       \/ Truthy(Default(body.tags, Empty)) /\ ~IsStr(Default(body.tags, Empty))
  ELSE ~IsStr(Or(body.name, Empty))

\* A Create that stores the upload's reference already resolved.
createImageResolved(r, upload) ==
  IF upload # <<>> THEN Str(LocalUrl \o upload)
  ELSE IF r = 1 THEN Empty ELSE Str(ProductImageUrl)

\* The image Create stores.
createImage(r, upload) ==
  IF upload # <<>> THEN Str(upload)
  ELSE IF r = 1 THEN Empty ELSE Str(ProductImageUrl)

\* rev 1 and rev 2 (the same field by field).
newProduct12(body, image, id, tCreated, tUpdated) ==
  [ id |-> id,
    name |-> Trimmed(Or(body.name, Empty)),
    price |-> IF Truthy(body.price) THEN parseFloat(body.price) ELSE Num(0, 0),
    category |-> Or(body.category, Empty),
    mainCategory |-> Or(body.mainCategory, Empty),
    subCategory |-> Or(body.subCategory, Empty),
    image |-> image,
    specifications |->
      [ category |-> Or(body.category, Empty),
        subCategory |-> Or(body.subCategory, Empty),
        composition |-> Or(body.composition, Empty),
        gsm |-> Or(body.gsm, Empty),
        width |-> Or(body.width, Empty),
        count |-> Or(body.count, Empty),
        construction |-> Or(body.construction, Empty),
        weave |-> Or(body.weave, Empty),
        finish |-> Or(body.finish, Empty) ],
    tags |-> normaliseTags(body.tags, Arr(<<>>)),
    createdAt |-> toISOString(tCreated),
    updatedAt |-> toISOString(tUpdated),
    inStock |-> True ]

\* rev 3.
newProduct3(body, image, id, tCreated, tUpdated) ==
  LET subCategory == IF Truthy(body.subCategory) THEN Trimmed(body.subCategory) ELSE Empty
      nestedCategory == Default(body.nestedCategory, Empty)
      tags == Default(body.tags, Empty)
  IN
  [ id |-> id,
    name |-> Trimmed(body.name),
    price |-> parseFloat(body.price),
    description |-> Trimmed(Default(body.description, Empty)),
    category |-> body.mainCategory,
    mainCategory |-> Trimmed(body.mainCategory),
    subCategory |-> subCategory,
    nestedCategory |-> IF Truthy(nestedCategory) THEN Trimmed(nestedCategory) ELSE Empty,
    image |-> image,
    specifications |->
      [ category |-> Trimmed(body.mainCategory),
        subCategory |-> subCategory,
        composition |-> Trimmed(Default(body.composition, Empty)),
        gsm |-> Trimmed(Default(body.gsm, Empty)),
        width |-> Trimmed(Default(body.width, Empty)),
        count |-> Trimmed(Default(body.count, Empty)),
        construction |-> Trimmed(Default(body.construction, Empty)),
        weave |-> Trimmed(Default(body.weave, Empty)),
        finish |-> Trimmed(Default(body.finish, Empty)),
        usage |-> Trimmed(Default(body.usage, Empty)) ],
    tags |-> IF Truthy(tags) THEN splitTags(tags) ELSE Arr(<<>>),
    createdAt |-> toISOString(tCreated),
    updatedAt |-> toISOString(tUpdated),
    inStock |-> True ]

newProduct(r, body, image, id, tCreated, tUpdated) ==
  IF r = 3 THEN newProduct3(body, image, id, tCreated, tUpdated)
  ELSE newProduct12(body, image, id, tCreated, tUpdated)

\* Whether building the updated product throws: rev 3 calls tags.split on
\* whatever truthy value it was sent; rev 1 and rev 2 test typeof first.
updateThrows(r, body) ==
  r = 3 /\ Truthy(body.tags) /\ ~IsStr(body.tags)

updatedProduct12(existing, body, image, tUpdated) ==
  [ existing EXCEPT
      !.name = Or(body.name, existing.name),
      !.price = IF Truthy(body.price) THEN parseFloat(body.price) ELSE existing.price,
      !.category = Or(body.category, existing.category),
      !.mainCategory = Or(body.mainCategory, existing.mainCategory),
      !.subCategory = Or(body.subCategory, existing.subCategory),
      !.image = image,
      !.specifications =
        [ category |-> Or(body.category, existing.specifications.category),
          subCategory |-> Or(body.subCategory, existing.specifications.subCategory),
          composition |-> Or(body.composition, existing.specifications.composition),
          gsm |-> Or(body.gsm, existing.specifications.gsm),
          width |-> Or(body.width, existing.specifications.width),
          count |-> Or(body.count, existing.specifications.count),
          construction |-> Or(body.construction, existing.specifications.construction),
          weave |-> Or(body.weave, existing.specifications.weave),
          finish |-> Or(body.finish, existing.specifications.finish) ],
      !.tags = normaliseTags(body.tags, existing.tags),
      !.updatedAt = toISOString(tUpdated) ]

updatedProduct3(existing, body, image, tUpdated) ==
  [ existing EXCEPT
      !.name = Or(body.name, existing.name),
      !.price = IF Truthy(body.price) THEN parseFloat(body.price) ELSE existing.price,
      !.description = Or(body.description, existing.description),
      !.mainCategory = Or(body.mainCategory, existing.mainCategory),
      !.subCategory = Or(body.subCategory, existing.subCategory),
      !.nestedCategory = Or(body.nestedCategory, existing.nestedCategory),
      !.image = image,
      !.specifications =
        [ existing.specifications EXCEPT
            !.category = Or(body.mainCategory, existing.mainCategory),
            !.subCategory = Or(body.subCategory, existing.subCategory),
            !.composition = Or(body.composition, existing.specifications.composition),
            !.gsm = Or(body.gsm, existing.specifications.gsm),
            !.width = Or(body.width, existing.specifications.width),
            !.count = Or(body.count, existing.specifications.count),
            !.construction = Or(body.construction, existing.specifications.construction),
            !.weave = Or(body.weave, existing.specifications.weave),
            !.finish = Or(body.finish, existing.specifications.finish),
            !.usage = Or(body.usage, existing.specifications.usage) ],
      !.tags = IF Truthy(body.tags) THEN splitTags(body.tags) ELSE existing.tags,
      !.updatedAt = toISOString(tUpdated) ]

updatedProduct(r, existing, body, image, tUpdated) ==
  IF r = 3 THEN updatedProduct3(existing, body, image, tUpdated)
  ELSE updatedProduct12(existing, body, image, tUpdated)

(* ---------------------------------------------------------------- inputs *)

\* req.body with every field absent.
NoFields ==
  [ name |-> Undef, price |-> Undef, description |-> Undef, category |-> Undef,
    mainCategory |-> Undef, subCategory |-> Undef, nestedCategory |-> Undef,
    composition |-> Undef, gsm |-> Undef, width |-> Undef, count |-> Undef,
    construction |-> Undef, weave |-> Undef, finish |-> Undef, usage |-> Undef,
    tags |-> Undef ]

TagArray == Arr(<<Str(<<"a">>), Str(<<"b">>)>>)

\* The least body every revision accepts.
Plain ==
  [NoFields EXCEPT !.name = Str(<<"A">>), !.price = Str(<<"1", ".", "5">>),
                   !.mainCategory = Str(<<"M">>)]

\* The bodies sent to Create without a file.
CreateBodies ==
  { NoFields,
    [Plain EXCEPT !.name = Empty],
    Plain,
    [Plain EXCEPT !.name = Str(<<" ", "A", " ">>),
                  !.mainCategory = Str(<<" ", "M">>),
                  !.category = Str(<<"C">>),
                  !.subCategory = Str(<<"S">>),
                  !.composition = Str(<<"c">>),
                  !.tags = Str(<<"a", ",", " ", "b">>)],
    [Plain EXCEPT !.name = Str(<<" ">>), !.price = Str(<<"x">>)] }

\* The bodies sent to Create with an image.
CreateBodiesWithFile == {NoFields, Plain}

\* The bodies sent to Update without a file.
UpdateBodies ==
  { [NoFields EXCEPT !.price = Str(<<"2">>)],
    [NoFields EXCEPT !.name = Str(<<"B">>), !.composition = Str(<<"d">>),
                     !.tags = Str(<<"c", " ", ",", "d">>)],
    [NoFields EXCEPT !.name = Empty, !.price = Str(<<"-", "2">>)],
    [NoFields EXCEPT !.mainCategory = Str(<<"N">>), !.category = Str(<<"D">>),
                     !.subCategory = Str(<<"T">>)],
    [NoFields EXCEPT !.tags = TagArray] }

\* The bodies sent to Update with an image.
UpdateBodiesWithFile == {NoFields, [NoFields EXCEPT !.tags = TagArray]}

\* req.file: none, or an image (multer stores it before the handler runs).
NoFile == "none"
Image == "image"

Requests(bodies, bodiesWithFile) ==
  (bodies \X {NoFile}) \cup (bodiesWithFile \X {Image})

\* path.extname(file.originalname)
Ext == ".png"

\* An id no Create generates.
NoSuchId == Str(<<"prod-", "0">>)

\* The ids requests name: those stored, the one the last request named (a
\* deleted one, say) and one that is never stored.
RequestIds ==
  {products[i].id : i \in 1..Len(products)} \cup {last.id, NoSuchId}

\* Math.random(): the code compares the texts it builds from a draw for
\* equality only, so a draw is either one of the suffixes that make a text
\* already in use (`taken`) or the least suffix that does not: every
\* behaviour is present up to a renaming of the suffixes.
Draws(taken) ==
  taken \cup {CHOOSE r \in 0..Cardinality(taken) : r \notin taken}

\* The suffixes that make generateId(ms, r) the id of a stored product.
takenIdDraws(ms) ==
  {r \in 0..Len(products) : \E i \in 1..Len(products) : products[i].id = generateId(ms, r)}

\* The references in use: the files of the uploads directory and the images
\* of the stored products.
refsInUse ==
  files \cup {products[i].image.v : i \in 1..Len(products)}

\* The suffixes that make the upload's reference one in use.
takenFileDraws(ms) ==
  {r \in 0..Cardinality(refsInUse) : uploadRef(uploadFilename(ms, r, Ext)) \in refsInUse}

\* The clock when a request arrives: it may have ticked since it was last read.
Arrivals == {now, now + 1} \cap 0..MaxClock

\* The clock read k times in a row, first at `start`: it may tick once in between.
ClockReads(start, k) ==
  {[i \in 1..k |-> IF i < tick THEN start ELSE start + 1] : tick \in 2..(k + 1)}
  \cap [1..k -> 0..MaxClock]

(* ------------------------------------------------------------- the routes *)

\* What the last request was and what it was answered: the route, the
\* status, the id it named (Create: the id it generated), its body, the
\* image reference multer stored for it (<<>>: no file) and the payload.
Answer(op, status, id, body, upload, payload) ==
  [op |-> op, status |-> status, id |-> id, body |-> body,
   upload |-> upload, payload |-> payload]

NoPayload == <<>>

\* upload.single("image"): the storage-relative reference of the stored
\* file, <<>> when the request carries none.
storedUpload(file, ms, rnd) ==
  IF file = Image THEN uploadRef(uploadFilename(ms, rnd, Ext)) ELSE <<>>

\* The draws of multer's filename callback for a request arriving at ms.
uploadDraws(file, ms) == IF file = Image THEN Draws(takenFileDraws(ms)) ELSE {0}

\* The uploads directory once multer has written the file.
afterUpload(fs, upload) == IF upload = <<>> THEN fs ELSE fs \cup {upload}

\* if (fs.existsSync(path)) fs.unlinkSync(path)
unlinkIfExists(fs, path) == fs \ {path}

\* The uploads directory once Update has dealt with the product's old image.
afterReplace(r, fs, existing, upload) ==
  IF upload # <<>> /\ IsLocalImage(r, existing.image)
  THEN unlinkIfExists(fs, existing.image.v)
  ELSE fs

\* The uploads directory once Delete has dealt with the product's image.
afterDelete(r, fs, prod) ==
  IF IsLocalImage(r, prod.image) THEN unlinkIfExists(fs, prod.image.v) ELSE fs

Init ==
  /\ rev \in Revisions
  /\ products = <<>>
  /\ files = {}
  /\ now = 0
  /\ left = MaxRequests
  /\ last = Answer("none", 0, NoSuchId, NoFields, <<>>, NoPayload)

\* GET /api/products
List ==
  /\ left > 0
  /\ left' = left - 1
  /\ last' = Answer("list", 200, NoSuchId, NoFields, <<>>,
                    [i \in 1..Len(products) |-> Returned(rev, products[i])])
  /\ UNCHANGED <<rev, products, files, now>>

\* GET /api/products/:id
Get(id) ==
  /\ left > 0
  /\ left' = left - 1
  /\ LET index == findIndex(products, id)
     IN  last' = IF index = 0
                 THEN Answer("get", 404, id, NoFields, <<>>, NoPayload)
                 ELSE Answer("get", 200, id, NoFields, <<>>,
                             Returned(rev, products[index]))
  /\ UNCHANGED <<rev, products, files, now>>

\* POST /api/products, the request arriving at `start` and multer drawing `frnd`.
Create(body, file, start, frnd) ==
  /\ left > 0
  /\ Len(products) < MaxProducts
  /\ left' = left - 1
  /\ LET upload == storedUpload(file, start, frnd)
     IN  /\ files' = afterUpload(files, upload)
         /\ IF createRefused(rev, body)
            THEN /\ last' = Answer("create", 400, NoSuchId, body, upload, NoPayload)
                 /\ now' = start
                 /\ UNCHANGED products
            ELSE IF createThrows(rev, body)
            THEN /\ last' = Answer("create", 500, NoSuchId, body, upload, NoPayload)
                 /\ now' = start
                 /\ UNCHANGED products
            ELSE \E at \in ClockReads(start, 3) :
                 \E rnd \in Draws(takenIdDraws(at[1])) :
                   LET newProd == newProduct(rev, body, createImage(rev, upload),
                                             generateId(at[1], rnd), at[2], at[3])
                   IN  /\ products' = Append(products, newProd)
                       /\ now' = at[3]
                       /\ last' = Answer("create", 201, newProd.id, body, upload,
                                         Returned(rev, newProd))
  /\ UNCHANGED rev

\* PUT /api/products/:id, the request arriving at `start` and multer drawing `frnd`.
Update(id, body, file, start, frnd) ==
  /\ left > 0
  /\ left' = left - 1
  /\ LET upload == storedUpload(file, start, frnd)
         index == findIndex(products, id)
     IN  IF index = 0
         THEN /\ files' = afterUpload(files, upload)
              /\ last' = Answer("update", 404, id, body, upload, NoPayload)
              /\ now' = start
              /\ UNCHANGED products
         ELSE LET existing == products[index]
                  image == IF upload # <<>> THEN Str(upload) ELSE existing.image
              IN  /\ files' = afterReplace(rev, afterUpload(files, upload),
                                           existing, upload)
                  /\ IF updateThrows(rev, body)
                     THEN /\ last' = Answer("update", 500, id, body, upload, NoPayload)
                          /\ now' = start
                          /\ UNCHANGED products
                     ELSE LET updated == updatedProduct(rev, existing, body, image, start)
                          IN  /\ products' = [products EXCEPT ![index] = updated]
                              /\ now' = start
                              /\ last' = Answer("update", 200, id, body, upload,
                                                Returned(rev, updated))
  /\ UNCHANGED rev

\* DELETE /api/products/:id
Delete(id) ==
  /\ left > 0
  /\ left' = left - 1
  /\ LET index == findIndex(products, id)
     IN  IF index = 0
         THEN /\ last' = Answer("delete", 404, id, NoFields, <<>>, NoPayload)
              /\ UNCHANGED <<products, files>>
         ELSE /\ files' = afterDelete(rev, files, products[index])
              /\ products' = splice(products, index)
              /\ last' = Answer("delete", 200, id, NoFields, <<>>, id)
  /\ UNCHANGED <<rev, now>>

\* A POST or PUT whose file multer refuses (fileFilter: not an image, 500;
\* limits: over 10 MiB, 400): the error middleware answers and the route
\* handler never runs.
UploadRefused ==
  /\ left > 0
  /\ left' = left - 1
  /\ \E status \in {400, 500} :
       last' = Answer("upload", status, NoSuchId, NoFields, <<>>, NoPayload)
  /\ UNCHANGED <<rev, products, files, now>>

Next ==
  \/ List
  \/ \E id \in RequestIds : Get(id)
  \/ \E req \in Requests(CreateBodies, CreateBodiesWithFile), start \in Arrivals :
       \E frnd \in uploadDraws(req[2], start) : Create(req[1], req[2], start, frnd)
  \/ \E id \in RequestIds, req \in Requests(UpdateBodies, UpdateBodiesWithFile),
        start \in Arrivals :
       \E frnd \in uploadDraws(req[2], start) : Update(id, req[1], req[2], start, frnd)
  \/ \E id \in RequestIds : Delete(id)
  \/ UploadRefused

Spec == Init /\ [][Next]_vars

\* The same server, one request more.
InitDeep ==
  /\ rev \in Revisions
  /\ products = <<>>
  /\ files = {}
  /\ now = 0
  /\ left = MaxRequests + 1
  /\ last = Answer("none", 0, NoSuchId, NoFields, <<>>, NoPayload)

SpecDeep == InitDeep /\ [][Next]_vars

(* ------------------------------------------------------------- resolving *)

\* The chunks of the image references handed to getFullImageUrl.
RefChunks ==
  {"http", "s://cdn.example/x.png", "://h/x.png", "/uploads/", "product-0-0.png",
   "ftp://h/x.png", "data:image/png;base64,AA", "images/"}

\* The references: absent, empty, and every text of one or two chunks.
ImageRefs ==
  {Undef, Empty} \cup {Str(<<c>>) : c \in RefChunks}
  \cup {Str(<<c, d>>) : c \in RefChunks, d \in RefChunks}

\* process.env.BACKEND_URL: not set, or the deployed host.
BackendUrls == {Undef, Str(<<"http", "s://api.sssventures.in">>)}

InitResolve ==
  /\ rev \in {1, 2}
  /\ products = <<>>
  /\ files = {}
  /\ now = 0
  /\ left = 0
  /\ last = Answer("none", 0, NoSuchId, NoFields, <<>>, NoPayload)

\* One call of getFullImageUrl (rev 1, rev 2; rev 3 has no resolver).
Resolve(env, imagePath) ==
  /\ last' = Answer("resolve", 0, NoSuchId, NoFields, <<>>,
                    [env |-> env, imagePath |-> imagePath,
                     url |-> getFullImageUrl(rev, env, imagePath)])
  /\ UNCHANGED <<rev, products, files, now, left>>

NextResolve == \E env \in BackendUrls, imagePath \in ImageRefs : Resolve(env, imagePath)

SpecResolve == InitResolve /\ [][NextResolve]_vars

(* ---------------------------------------------------------------- claims *)

\* Some stored product has this id.
Stored(ps, id) == \E i \in 1..Len(ps) : ps[i].id = id

\* The product a request that names `id` is about: the first with that id.
FirstWith(ps, id) ==
  CHOOSE i \in 1..Len(ps) : ps[i].id = id /\ \A j \in 1..(i - 1) : ps[j].id # id

\* ps without its i-th element.
Without(ps, i) == [k \in 1..(Len(ps) - 1) |-> IF k < i THEN ps[k] ELSE ps[k + 1]]

\* A stored image that is a storage-relative reference.
IsStorageRef(image) == IsStr(image) /\ startsWith(image.v, UploadsPrefix)

\* A stored image that is an absolute URL.
IsAbsoluteUrl(image) == IsStr(image) /\ startsWith(image.v, Http)

\* C1: in every revision a Create whose name is absent or empty is answered
\* 400 and leaves the product list exactly as it was.
C1_CreateWithoutNameRefused ==
  [][ (last'.op = "create" /\ last'.body.name \in {Undef, Empty})
        => (last'.status = 400 /\ products' = products) ]_vars

\* C1 happens: a Create with an empty name was refused by a server that
\* holds a product.
C1_Witness ==
  /\ last.op = "create"
  /\ last.body.name = Empty
  /\ last.status = 400
  /\ Len(products) = 1

\* C2: in every revision Get, Update and Delete on an id no stored product
\* has are answered 404 and leave the product list as it was, whatever the
\* body and the upload.
C2_UnknownIdNotFound ==
  [][ (last'.op \in {"get", "update", "delete"} /\ ~Stored(products, last'.id))
        => (last'.status = 404 /\ products' = products) ]_vars

\* C2 happens: an Update with an uploaded image on an unknown id, the server
\* holding a product.
C2_Witness ==
  /\ last.op = "update"
  /\ last.status = 404
  /\ last.upload # <<>>
  /\ Len(products) = 1

\* C3: no two stored products have the same id.
C3_IdsUnique ==
  \A i, j \in 1..Len(products) : i # j => products[i].id # products[j].id

\* C4: after a successful Create exactly one stored product (so exactly one
\* record of List) has the id Create returned, and its createdAt equals its
\* updatedAt.
C4_CreatedOnceAtOneInstant ==
  (last.op = "create" /\ last.status = 201)
    => /\ Cardinality({i \in 1..Len(products) : products[i].id = last.id}) = 1
       /\ \A i \in 1..Len(products) :
            products[i].id = last.id => products[i].createdAt = products[i].updatedAt

\* A body that carries a price and nothing else.
PriceOnly(body) ==
  body.price # Undef /\ body = [NoFields EXCEPT !.price = body.price]

C6_ImageReplaced ==
  [][ (last'.op = "update" /\ Stored(products, last'.id) /\ last'.upload # <<>>)
        => LET i == FirstWith(products, last'.id)
               old == products[i].image
           IN  IF IsStorageRef(old)
               THEN /\ old.v \notin files'
                    /\ products'[i].image = Str(last'.upload)
               ELSE files \subseteq files' ]_vars

\* C7: every stored image is empty, an absolute URL, or a storage reference
\* whose file is in the uploads directory.
C7_ImagesResolve ==
  \A i \in 1..Len(products) :
    \/ products[i].image = Empty
    \/ IsAbsoluteUrl(products[i].image)
    \/ IsStorageRef(products[i].image) /\ products[i].image.v \in files

\* C8: a Delete of a stored id removes that record only, removes its file
\* when its image is a storage reference and no file otherwise, leaves the
\* other files alone, returns the id, and leaves no product with that id (a
\* later Get is answered 404).
C8_DeleteRemoves ==
  [][ (last'.op = "delete" /\ Stored(products, last'.id))
        => LET i == FirstWith(products, last'.id)
               image == products[i].image
           IN  /\ last'.status = 200
               /\ last'.payload = last'.id
               /\ products' = Without(products, i)
               /\ files' = IF IsStorageRef(image) THEN files \ {image.v} ELSE files
               /\ ~Stored(products', last'.id) ]_vars

\* The value a field holds after an Update that provides `sent` for it.
Overwritten(sent, prior) == IF sent = Undef THEN prior ELSE sent

\* The tags a provided value stands for: a text split at its commas.
TagsOf(sent) == IF IsStr(sent) THEN splitTags(sent) ELSE sent

\* C9: an Update of a stored product overwrites every field the request
\* provides (the price as its number, the tags as their list) and keeps every
\* field it does not provide; the specification is merged key by key.
C9_ProvidedFieldsOverwrite ==
  [][ (last'.op = "update" /\ Stored(products, last'.id))
        => LET i == FirstWith(products, last'.id)
               old == products[i]
               new == products'[i]
               body == last'.body
           IN  /\ new.name = Overwritten(body.name, old.name)
               /\ new.price =
                    IF body.price = Undef THEN old.price ELSE parseFloat(body.price)
               /\ new.category = Overwritten(body.category, old.category)
               /\ new.mainCategory = Overwritten(body.mainCategory, old.mainCategory)
               /\ new.subCategory = Overwritten(body.subCategory, old.subCategory)
               /\ new.specifications.composition =
                    Overwritten(body.composition, old.specifications.composition)
               /\ new.specifications.gsm =
                    Overwritten(body.gsm, old.specifications.gsm)
               /\ new.specifications.width =
                    Overwritten(body.width, old.specifications.width)
               /\ new.specifications.count =
                    Overwritten(body.count, old.specifications.count)
               /\ new.specifications.construction =
                    Overwritten(body.construction, old.specifications.construction)
               /\ new.specifications.weave =
                    Overwritten(body.weave, old.specifications.weave)
               /\ new.specifications.finish =
                    Overwritten(body.finish, old.specifications.finish)
               /\ new.tags =
                    IF body.tags = Undef THEN old.tags ELSE TagsOf(body.tags) ]_vars

\* A text that starts with a URL scheme.
StartsWithScheme(s) ==
  \/ Len(s) >= 1 /\ s[1] \in {"ftp://h/x.png", "data:image/png;base64,AA"}
  \/ Len(s) >= 2 /\ s[1] = "http" /\ s[2] \in {"s://cdn.example/x.png", "://h/x.png"}

\* The base URL configured for a revision.
ConfiguredBase(r, env) ==
  IF r = 1 /\ env # Undef THEN env.v ELSE <<"http", "://localhost:5000">>

\* C10: getFullImageUrl gives the placeholder for an absent or empty
\* reference, a reference that starts with a URL scheme unchanged, the
\* configured base followed by the reference for one that begins with
\* "/uploads/", and any other value unchanged.
C10_ResolverRules ==
  last.op = "resolve"
    => LET ref == last.payload.imagePath
           url == last.payload.url
       IN  IF ref \in {Undef, Empty}
           THEN url = Str(<<"http", "s://via.placeholder.com/300x300/4A5568/FFFFFF?text=No+Image">>)
           ELSE IF StartsWithScheme(ref.v) THEN url = ref
           ELSE IF ref.v[1] = "/uploads/"
           THEN url = Str(ConfiguredBase(rev, last.payload.env) \o ref.v)
           ELSE url = ref

\* C10 happens: a freshly stored reference was resolved against a configured
\* BACKEND_URL.
C10_Witness ==
  /\ last.op = "resolve"
  /\ rev = 1
  /\ last.payload.env # Undef
  /\ last.payload.imagePath = Str(<<"/uploads/", "product-0-0.png">>)
  /\ last.payload.url = Str(<<"http", "s://api.sssventures.in", "/uploads/", "product-0-0.png">>)

\* A stored image in resolved form: it starts with a base URL of the server.
IsBasePrefixed(image) ==
  /\ IsStr(image)
  /\ \/ startsWith(image.v, <<"http", "://localhost:5000">>)
     \/ startsWith(image.v, <<"http", "s://api.sssventures.in">>)

\* C11: every stored image is empty, an absolute external URL or an
\* "/uploads/" reference and never starts with the server's base URL, and
\* List and Get leave the product list as it was.
C11_ResolutionNeverStored ==
  [][ /\ \A i \in 1..Len(products') :
           /\ \/ products'[i].image = Empty
              \/ IsAbsoluteUrl(products'[i].image)
              \/ IsStorageRef(products'[i].image)
           /\ ~IsBasePrefixed(products'[i].image)
      /\ last'.op \in {"list", "get"} => products' = products ]_vars

\* C11 happens: a Get returned a resolved image that differs from the
\* "/uploads/" reference the product still stores.
C11_Witness ==
  /\ last.op = "get"
  /\ last.status = 200
  /\ \E i \in 1..Len(products) :
       /\ products[i].id = last.id
       /\ IsStorageRef(products[i].image)
       /\ IsBasePrefixed(last.payload.image)
       /\ last.payload.image # products[i].image

\* The URL the resolver rules give for a stored image.
ExpectedUrl(r, image) ==
  IF image \in {Undef, Empty}
  THEN Str(<<"http", "s://via.placeholder.com/300x300/4A5568/FFFFFF?text=No+Image">>)
  ELSE IF IsAbsoluteUrl(image) THEN image
  ELSE IF IsStorageRef(image) THEN Str(ConfiguredBase(r, Undef) \o image.v)
  ELSE image

\* C12: List returns the stored products in their order, each equal to the
\* stored record but for its image, which is the resolver's output; and the
\* order is the insertion order: Create appends, Update keeps every
\* position, Delete removes one entry, nothing else changes the list.
C12_ListInInsertionOrder ==
  [][ /\ last'.op = "list" =>
           /\ last'.status = 200
           /\ Len(last'.payload) = Len(products')
           /\ \A i \in 1..Len(products') :
                last'.payload[i] =
                  [products'[i] EXCEPT !.image = ExpectedUrl(rev, products'[i].image)]
      /\ (last'.op = "create" /\ last'.status = 201) =>
           /\ Len(products') = Len(products) + 1
           /\ SubSeq(products', 1, Len(products)) = products
      /\ (last'.op = "update" /\ last'.status = 200) =>
           /\ Len(products') = Len(products)
           /\ \E i \in 1..Len(products) :
                \A j \in 1..Len(products) : j # i => products'[j] = products[j]
      /\ (last'.op = "delete" /\ last'.status = 200) =>
           \E i \in 1..Len(products) : products' = Without(products, i)
      /\ ~(last'.op \in {"create", "update", "delete"} /\ last'.status \in {200, 201}) =>
           products' = products ]_vars

\* C13: every stored price is a number that is not NaN and not negative.
C13_PriceNonNegative ==
  \A i \in 1..Len(products) :
    /\ products[i].price.t = "number"
    /\ ~products[i].price.nan
    /\ products[i].price.m >= 0

\* C14: every stored name is a non-empty text.
C14_NameNonEmpty ==
  \A i \in 1..Len(products) :
    IsStr(products[i].name) /\ products[i].name # Empty

\* C15: for every stored product specifications.category equals the field
\* it is copied from (mainCategory in rev 3, category before),
\* specifications.subCategory equals subCategory, and in rev 3 category
\* equals mainCategory.
C15_AliasesInSync ==
  \A i \in 1..Len(products) :
    LET p == products[i]
    IN  /\ p.specifications.subCategory = p.subCategory
        /\ IF rev = 3
           THEN /\ p.specifications.category = p.mainCategory
                /\ p.category = p.mainCategory
           ELSE p.specifications.category = p.category

\* C16: every file in the uploads directory is the image of exactly one
\* stored product.
C16_NoOrphanedUpload ==
  \A f \in files :
    Cardinality({i \in 1..Len(products) : products[i].image = Str(f)}) = 1

\* C17: an Update of a stored product that is answered with a failure
\* leaves the product list as it was and leaves the product's image file in
\* the uploads directory when it was there.
C17_FailedUpdateAtomic ==
  [][ (last'.op = "update" /\ last'.status >= 400 /\ Stored(products, last'.id))
        => LET image == products[FirstWith(products, last'.id)].image
           IN  /\ products' = products
               /\ (IsStr(image) /\ image.v \in files) => image.v \in files' ]_vars

====
